---- MODULE Spec2Model ----
(***************************************************************************)
(* Turkey Run: the lane-runner's simulation core.                          *)
(*                                                                         *)
(*   Player        src/unnamed/part_000 lines 30-321   (lane, jump physics,*)
(*                 damage-invulnerability window, command handlers)        *)
(*   LevelManager  src/unnamed/part_000 lines 605-885  (entity store,      *)
(*                 movement, collision, spawning, level-up / reset effect) *)
(*   HUD, Shop     src/components/UI/HUD.tsx           (shop catalogue,    *)
(*                 restart / start / continue buttons)                     *)
(*                                                                         *)
(* The zustand store (../../store) and ../../types are not among the       *)
(* source files: the store's operations and the constants of types.ts are  *)
(* modelled from the specification's sections 3, 4.4 and 6.                *)
(*                                                                         *)
(* Fixed point.  Lengths are thousandths of a world unit, times are        *)
(* milliseconds, velocities are thousandths of a unit per second, angles   *)
(* are thousandths of a radian.  Frame deltas are multiples of 10 ms, so   *)
(* the vertical integration below is exact; only the horizontal easing     *)
(* rounds, to a tenth of a unit, where the program rounds at the precision *)
(* of its floating point.                                                  *)
(***************************************************************************)
EXTENDS Integers, Sequences, FiniteSets, TLC

(* ------------------------------ bounds --------------------------------- *)

\* Playing ticks of a behaviour: the distance counter is capped by this guard.
MaxTicks == 3

\* Entities the random branch of the spawner pushes in a behaviour; its draw
\* Math.random() > 0.1 fails from then on.
MaxRandomSpawns == 1

\* Smallest and largest lane count the store hands to the components.
MinLaneCount == 1
MaxLaneCount == 3

\* Length of the target word (the word itself is in the store).
WordLen == 1

\* Frame periods in ms of the renderer, steady over a behaviour: frames of a
\* 50 Hz display, frames at the clamp of LevelManager.useFrame, and frames
\* twice as long.
Deltas == {20, 50, 100}

\* Wall clock in ms of the frames the program spends in Menu, GameOver or
\* Victory before the next command.
IdlePause == 1600

\* Time in ms since the jump of a player the model picks up in the air.
AloftMs == 600

\* Largest per-tick travel distance, in units, the zone test is tried with.
MaxTravel == 40

\* Score of a run in progress at the moment the model picks it up.
InitScores == {0, 1500, 2500}

(* ------------------- constants of the source files --------------------- *)

GRAVITY == 50000
JUMP_FORCE == 16000
BASE_LETTER_INTERVAL == 150000
MISSILE_SPEED == 20000
MAX_DELTA == 50
INVINCIBLE_MS == 1500
TWO_PI == 6283

COST_DOUBLE_JUMP == 1000
COST_MAX_LIFE == 1500
COST_HEAL == 1000
COST_IMMORTAL == 3000

(* ------------- constants of types.ts / store.ts (not in src) ----------- *)

LANE_WIDTH == 2200
SPAWN_DISTANCE == 120000
REMOVE_DISTANCE == 20000
RUN_SPEED_BASE == 200000
BASE_MAX_LIVES == 3
BASE_LANE_COUNT == 3
MAX_LEVEL == 3

(* ------------------------------ state ---------------------------------- *)

VARIABLES
    \* the store (useStore)
    status, score, lives, maxLives, level, collectedLetters, distance,
    speed, laneCount, hasDoubleJump, hasImmortality, isImmortalityActive,
    \* Player refs and state
    lane, posX, posY, isJumping, velocityY, jumpsPerformed, spinRotation,
    isInvincible, sinceDamage,
    \* LevelManager refs
    objects, prevStatus, prevLevel, distanceTraveled, nextLetterDistance,
    \* ShopScreen state
    shopItems,
    \* the renderer's frame period, the Playing ticks and the random spawns
    \* of the behaviour so far
    frameMs, ticks, spawned

storeVars == <<status, score, lives, maxLives, level, collectedLetters,
               distance, speed, laneCount, hasDoubleJump, hasImmortality,
               isImmortalityActive>>
playerVars == <<lane, posX, posY, isJumping, velocityY, jumpsPerformed,
                spinRotation, isInvincible, sinceDamage>>
levelVars == <<objects, prevStatus, prevLevel, distanceTraveled,
               nextLetterDistance>>
vars == <<storeVars, playerVars, levelVars, shopItems, frameMs, ticks, spawned>>

Statuses == {"MENU", "PLAYING", "SHOP", "GAME_OVER", "VICTORY"}
ObjectTypes == {"OBSTACLE", "GEM", "LETTER", "ALIEN", "MISSILE", "SHOP_PORTAL"}
ItemIds == {"DOUBLE_JUMP", "MAX_LIFE", "HEAL", "IMMORTAL"}
WordIndices == 0..(WordLen - 1)
LaneCounts == {MinLaneCount, MaxLaneCount}

(* ------------------------------ helpers -------------------------------- *)

Min(a, b) == IF a < b THEN a ELSE b
Max(a, b) == IF a > b THEN a ELSE b
Abs(a) == IF a < 0 THEN -a ELSE a

\* Math.floor(laneCount / 2)
MaxLane(n) == n \div 2

\* getRandomLane: every value Math.floor(Math.random() * (2 max + 1)) - max takes
RandomLanes(n) == (-MaxLane(n))..MaxLane(n)

\* THREE.MathUtils.lerp(x, y, t) with t = delta * 15; the render offset is
\* kept to a tenth of a unit, rounded to the nearest.
Lerp(x, y, delta) == ((x + ((y - x) * (delta * 15)) \div 1000 + 50) \div 100) * 100

\* getLetterInterval(level) = BASE_LETTER_INTERVAL * Math.pow(1.5, max(0, level - 1))
RECURSIVE Pow(_, _)
Pow(b, e) == IF e <= 0 THEN 1 ELSE b * Pow(b, e - 1)
getLetterInterval(lvl) ==
    (BASE_LETTER_INTERVAL * Pow(3, Max(0, lvl - 1))) \div Pow(2, Max(0, lvl - 1))

\* One entity of the store (GameObject); points = 0 and targetIndex = -1 stand
\* for the fields the kind does not carry.  outcomes counts the collision
\* outcomes the entity has produced so far (bookkeeping of the model).
Obj(t, x, y, z) ==
    [type |-> t, x |-> x, y |-> y, z |-> z, active |-> TRUE,
     hasFired |-> FALSE, points |-> 0, targetIndex |-> -1, outcomes |-> 0]

(* ----------------- the store's operations (not in src) ----------------- *)
\* Each works on a record of the store's fields, as zustand's get()/set() do
\* inside one frame.

\* Damage outcome: lives -= 1; at 0 lives the run is over.
takeDamage(a) ==
    [a EXCEPT !.lives = a.lives - 1,
              !.status = IF a.lives - 1 <= 0 THEN "GAME_OVER" ELSE a.status]

\* Score-add outcome.
collectGem(a, value) == [a EXCEPT !.score = a.score + value]

\* Letter-collected outcome: the full word at the terminal level is Victory.
collectLetter(a, index) ==
    LET got == a.collected \cup {index}
    IN  [a EXCEPT !.collected = got,
                  !.status = IF got = WordIndices /\ level = MAX_LEVEL
                                THEN "VICTORY" ELSE a.status]

\* Shop-entry outcome: Playing -> Shop.
openShop(a) ==
    [a EXCEPT !.status = IF a.status = "PLAYING" THEN "SHOP" ELSE a.status]

(* ------------------------------ Player --------------------------------- *)

\* A listener that restarts the window on a hit it ignores.
checkHitRewind(a) ==
    IF a.inv \/ isImmortalityActive
    THEN [a EXCEPT !.inv = TRUE, !.since = 0]
    ELSE [takeDamage(a) EXCEPT !.inv = TRUE, !.since = 0]

\* A listener that looks at the skill alone: a hit inside the damage window
\* is taken.
checkHitNoWindow(a) ==
    IF isImmortalityActive
    THEN a
    ELSE [takeDamage(a) EXCEPT !.inv = TRUE, !.since = 0]

\* A listener without the guard of line 243: every hit is taken.
checkHitUnguarded(a) == [takeDamage(a) EXCEPT !.inv = TRUE, !.since = 0]

\* Player.checkHit, the 'player-hit' listener (lines 241-251): a is the frame's
\* record of the store and of the two invincibility refs.
checkHit(a) ==
    IF a.inv \/ isImmortalityActive
    THEN a
    ELSE [takeDamage(a) EXCEPT !.inv = TRUE, !.since = 0]

\* max number of jumps (line 94)
MaxJumps == IF hasDoubleJump THEN 2 ELSE 1

\* A triggerJump without the bound of line 100: every airborne call is a
\* further jump.
JumpResultUnbounded ==
    IF ~isJumping
    THEN [isJumping |-> TRUE, jumps |-> 1, vel |-> JUMP_FORCE, spin |-> spinRotation]
    ELSE [isJumping |-> TRUE, jumps |-> jumpsPerformed + 1, vel |-> JUMP_FORCE, spin |-> 0]

\* A triggerJump that launches again at the bound, the count left alone.
JumpResultRelaunch ==
    IF ~isJumping
    THEN [isJumping |-> TRUE, jumps |-> 1, vel |-> JUMP_FORCE, spin |-> spinRotation]
    ELSE [isJumping |-> TRUE, jumps |-> Min(jumpsPerformed + 1, MaxJumps),
          vel |-> JUMP_FORCE, spin |-> 0]

\* Player.triggerJump (lines 93-106): the refs after the call
JumpResult ==
    IF ~isJumping
    THEN [isJumping |-> TRUE, jumps |-> 1, vel |-> JUMP_FORCE, spin |-> spinRotation]
    ELSE IF jumpsPerformed < MaxJumps
    THEN [isJumping |-> TRUE, jumps |-> jumpsPerformed + 1, vel |-> JUMP_FORCE, spin |-> 0]
    ELSE [isJumping |-> isJumping, jumps |-> jumpsPerformed, vel |-> velocityY,
          spin |-> spinRotation]

\* No clamp effect: the lane is left where it was.
ClampLaneOff(l, n) == l

\* The lane-clamp effect (lines 86-91) for lane l under lane count n
ClampLane(l, n) ==
    IF Abs(l) > MaxLane(n) THEN Max(Min(l, MaxLane(n)), -MaxLane(n)) ELSE l

\* The jump refs and the height of the player's group
JumpRefs ==
    [y |-> posY, vel |-> velocityY, isJumping |-> isJumping,
     jumps |-> jumpsPerformed, spin |-> spinRotation]

\* A landing that leaves the velocity of the fall (line 174 left out).
JumpStepHard(r, delta) ==
    IF ~r.isJumping
    THEN r
    ELSE IF r.y + (r.vel * delta) \div 1000 <= 0
    THEN [r EXCEPT !.y = 0, !.isJumping = FALSE, !.jumps = 0,
                   !.vel = r.vel - (GRAVITY * delta) \div 1000]
    ELSE [r EXCEPT !.y = r.y + (r.vel * delta) \div 1000,
                   !.vel = r.vel - (GRAVITY * delta) \div 1000]

\* A step that lowers the velocity first and advances the height with the
\* lowered velocity (lines 167 and 168 in the other order).
JumpStepVelocityFirst(r, delta) ==
    IF ~r.isJumping
    THEN r
    ELSE
      LET v1 == r.vel - (GRAVITY * delta) \div 1000
          y1 == r.y + (v1 * delta) \div 1000
          landed == y1 <= 0
          jumps1 == IF landed THEN 0 ELSE r.jumps
          spin1 == IF jumps1 = 2
                     THEN Max(r.spin - delta * 15, -TWO_PI)
                     ELSE r.spin
      IN  [y |-> IF landed THEN 0 ELSE y1,
           vel |-> IF landed THEN 0 ELSE v1,
           isJumping |-> ~landed,
           jumps |-> jumps1,
           spin |-> spin1]

\* Player.useFrame, step 2 (lines 165-183): the jump refs r after a frame of
\* delta ms.  The height is advanced with the old velocity, then the velocity
\* is lowered.
JumpStep(r, delta) ==
    IF ~r.isJumping
    THEN r
    ELSE
      LET y1 == r.y + (r.vel * delta) \div 1000
          v1 == r.vel - (GRAVITY * delta) \div 1000
          landed == y1 <= 0
          jumps1 == IF landed THEN 0 ELSE r.jumps
          spin1 == IF jumps1 = 2
                     THEN Max(r.spin - delta * 15, -TWO_PI)
                     ELSE r.spin
      IN  [y |-> IF landed THEN 0 ELSE y1,
           vel |-> IF landed THEN 0 ELSE v1,
           isJumping |-> ~landed,
           jumps |-> jumps1,
           spin |-> spin1]
JumpPhysics(delta) == JumpStep(JumpRefs, delta)

\* Player.useFrame, the invincibility block (lines 222-238): whether the
\* window is still open after since ms of wall clock
StillInvincible(inv, since) == inv /\ ~(since > INVINCIBLE_MS)

\* Wall clock since the last damage, advanced by one frame.  Only read while
\* isInvincible holds, so it is kept at 0 otherwise and stops counting once
\* past the window.
Elapse(inv, since, delta) ==
    IF inv THEN Min(since + delta, INVINCIBLE_MS + 50) ELSE 0

(* --------------------------- LevelManager ------------------------------ *)

\* safeDelta (line 667)
SafeDelta(delta) == Min(delta, MAX_DELTA)

\* dist = speed * safeDelta (line 668)
FrameDist(delta) == (speed * SafeDelta(delta)) \div 1000

\* A pitchfork flying away from the player (the sign of line 681 turned).
MoveAmountReversed(obj, delta) ==
    FrameDist(delta)
      - (IF obj.type = "MISSILE" THEN (MISSILE_SPEED * SafeDelta(delta)) \div 1000 ELSE 0)

\* moveAmount (lines 680-681)
MoveAmount(obj, delta) ==
    FrameDist(delta)
      + (IF obj.type = "MISSILE" THEN (MISSILE_SPEED * SafeDelta(delta)) \div 1000 ELSE 0)

\* A fire test that does not look at hasFired: the scarecrow fires in every
\* tick past the trigger line.
FiresAgain(obj, z) ==
    obj.type = "ALIEN" /\ obj.active /\ z > -90000

\* The scarecrow's fire test (lines 686-687) at its new position z
Fires(obj, z) ==
    obj.type = "ALIEN" /\ obj.active /\ ~obj.hasFired /\ z > -90000

\* A zone test on the position after the move alone: the entity is tested
\* only where the tick leaves it within 2 units of the player.
InZZonePoint(prevZ, z) == Abs(z - 0) < 2000

\* inZZone (line 703); the player stands at z = 0
InZZone(prevZ, z) == prevZ < 0 + 2000 /\ z > 0 - 2000

\* A proximity test ten times as wide.
PortalNearWide(z) == Abs(z - 0) < 20000

\* The portal's proximity test (lines 706-707)
PortalNear(z) == Abs(z - 0) < 2000

\* isDamageSource (line 716)
IsDamageSource(obj) == obj.type \in {"OBSTACLE", "ALIEN", "MISSILE"}

\* objBottom, objTop (lines 722-731)
ObjBottom(obj) ==
    IF obj.type = "OBSTACLE" THEN 0
    ELSE IF obj.type = "MISSILE" THEN 500
    ELSE obj.y - 500
ObjTop(obj) ==
    IF obj.type = "OBSTACLE" THEN 1400
    ELSE IF obj.type = "MISSILE" THEN 1500
    ELSE obj.y + 500

\* The vertical test of a damage source (lines 719-733) at player height py
VerticalHit(obj, py) == py < ObjTop(obj) /\ py + 1600 > ObjBottom(obj)

\* A hit test that does not look at the entity's active flag (the condition
\* of line 701 left out).
DamageHitInactive(obj, prevZ, z, px, py) ==
    /\ obj.type # "SHOP_PORTAL"
    /\ InZZone(prevZ, z)
    /\ Abs(obj.x - px) < 900
    /\ IsDamageSource(obj)
    /\ VerticalHit(obj, py)

\* Whether a damage source hits the player standing at (px, py) (lines 713-733)
DamageHit(obj, prevZ, z, px, py) ==
    /\ obj.active
    /\ obj.type # "SHOP_PORTAL"
    /\ InZZone(prevZ, z)
    /\ Abs(obj.x - px) < 900
    /\ IsDamageSource(obj)
    /\ VerticalHit(obj, py)

\* Whether a gem or letter is picked up (lines 713-715, 741-743)
PickupHit(obj, prevZ, z, px, py) ==
    /\ obj.active
    /\ obj.type # "SHOP_PORTAL"
    /\ InZZone(prevZ, z)
    /\ Abs(obj.x - px) < 900
    /\ ~IsDamageSource(obj)
    /\ Abs(obj.y - py) < 2500

\* Whether the portal opens the shop (lines 701, 705-707)
PortalHit(obj, z) == obj.active /\ obj.type = "SHOP_PORTAL" /\ PortalNear(z)

\* A prune test ten units further behind the player.
PastRemovalFar(z) == z > REMOVE_DISTANCE + 10000

\* The prune test (line 765)
PastRemoval(z) == z > REMOVE_DISTANCE

\* A pickup that scores pies alone: the collectLetter call of line 749 left out.
PickupOutcomeGemOnly(a, obj) ==
    IF obj.type = "GEM"
    THEN collectGem(a, IF obj.points # 0 THEN obj.points ELSE 50)
    ELSE a

\* The store outcome of a pickup (lines 744-751)
PickupOutcome(a, obj) ==
    IF obj.type = "GEM"
    THEN collectGem(a, IF obj.points # 0 THEN obj.points ELSE 50)
    ELSE IF obj.type = "LETTER" /\ obj.targetIndex # -1
    THEN collectLetter(a, obj.targetIndex)
    ELSE a

\* A loop that drops nothing: every entity goes into keptObjects.
KeepAlways(portal, z) == TRUE

\* A loop that deactivates the portal it has triggered and keeps it in the
\* store (keep = false of line 711 left out).
KeepPortal(portal, z) == ~PastRemoval(z)

\* keep (lines 700, 711, 765-769): whether the entity goes into keptObjects
Keep(portal, z) == ~portal /\ ~PastRemoval(z)

\* One pass of the loop body (lines 679-770) over obj, with the player at
\* (px, py): a carries the store, the invincibility refs, keptObjects (kept),
\* newSpawns (spawns), hasChanges (changed) and the objects as mutated in
\* place (objs).
StepObject(a, obj, delta, px, py) ==
    LET prevZ == obj.z
        z == prevZ + MoveAmount(obj, delta)
        fire == Fires(obj, z)
        portal == PortalHit(obj, z)
        damage == DamageHit(obj, prevZ, z, px, py)
        pickup == PickupHit(obj, prevZ, z, px, py)
        outcome == portal \/ damage \/ pickup
        o == [obj EXCEPT !.z = z,
                         !.hasFired = obj.hasFired \/ fire,
                         !.active = obj.active /\ ~outcome,
                         !.outcomes = obj.outcomes + (IF outcome THEN 1 ELSE 0)]
        missile == Obj("MISSILE", obj.x, 1000, z + 2000)
        a1 == IF fire THEN [a EXCEPT !.spawns = Append(a.spawns, missile)] ELSE a
        a2 == IF portal THEN openShop(a1)
              ELSE IF damage THEN checkHit(a1)
              ELSE IF pickup THEN PickupOutcome(a1, obj)
              ELSE a1
        keep == Keep(portal, z)
    IN  [a2 EXCEPT !.kept = IF keep THEN Append(a2.kept, o) ELSE a2.kept,
                   !.objs = Append(a2.objs, o),
                   !.changed = a.changed \/ fire \/ outcome \/ PastRemoval(z)]

\* The loop over currentObjects (line 679), from index i on
RECURSIVE StepObjects(_, _, _, _, _, _)
StepObjects(a, objs, i, delta, px, py) ==
    IF i > Len(objs) THEN a
    ELSE StepObjects(StepObject(a, objs[i], delta, px, py), objs, i + 1, delta, px, py)

\* staticObjects and furthestZ (lines 775-782)
StaticZs(objs) == {objs[i].z : i \in {j \in 1..Len(objs) : objs[j].type # "MISSILE"}}
FurthestZ(objs) ==
    IF StaticZs(objs) = {} THEN -20000
    ELSE CHOOSE m \in StaticZs(objs) : \A n \in StaticZs(objs) : m <= n

\* minGap and spawnZ (lines 785-786)
MinGapOf(v) == 12000 + (v * 4) \div 10
MinGap == MinGapOf(speed)

\* A spawn position without the horizon: the gap behind the farthest entity
\* alone.
SpawnZNear(furthestZ) == furthestZ - MinGap

SpawnZ(furthestZ) == Min(furthestZ - MinGap, -SPAWN_DISTANCE)

\* availableIndices (line 791), from the collectedLetters of the last render
AvailableIndices == {i \in WordIndices : i \notin collectedLetters}

\* The entities of each kind the spawner builds (lines 798-864)
LetterAt(l, i, z) == [Obj("LETTER", l * LANE_WIDTH, 1000, z) EXCEPT !.targetIndex = i]
GemAt(l, y, z, pts) == [Obj("GEM", l * LANE_WIDTH, y, z) EXCEPT !.points = pts]
AlienAt(l, z) == Obj("ALIEN", l * LANE_WIDTH, 0, z)
ObstacleAt(l, z) == Obj("OBSTACLE", l * LANE_WIDTH, 700, z)

\* A letter-due branch whose fallback pie advances the threshold as a letter
\* does.
LetterDueSpawnsAdvancing(z, nld) ==
    IF AvailableIndices # {}
    THEN {[objs |-> <<LetterAt(l, i, z)>>, next |-> nld + getLetterInterval(level), random |-> FALSE] :
             l \in RandomLanes(laneCount), i \in AvailableIndices}
    ELSE {[objs |-> <<GemAt(l, 1200, z, 50)>>, next |-> nld + getLetterInterval(level), random |-> FALSE] :
             l \in RandomLanes(laneCount)}

\* A letter-due branch that leaves the threshold where it was (line 807 left
\* out).
LetterDueSpawnsStale(z, nld) ==
    IF AvailableIndices # {}
    THEN {[objs |-> <<LetterAt(l, i, z)>>, next |-> nld, random |-> FALSE] :
             l \in RandomLanes(laneCount), i \in AvailableIndices}
    ELSE {[objs |-> <<GemAt(l, 1200, z, 50)>>, next |-> nld, random |-> FALSE] :
             l \in RandomLanes(laneCount)}

\* The letter-due branch (lines 789-819): what is pushed, and the threshold
LetterDueSpawns(z, nld) ==
    IF AvailableIndices # {}
    THEN {[objs |-> <<LetterAt(l, i, z)>>, next |-> nld + getLetterInterval(level), random |-> FALSE] :
             l \in RandomLanes(laneCount), i \in AvailableIndices}
    ELSE {[objs |-> <<GemAt(l, 1200, z, 50)>>, next |-> nld, random |-> FALSE] :
             l \in RandomLanes(laneCount)}

\* A spawner that builds scarecrows at every level.
AlienAllowedAlways == TRUE

\* The level condition of spawnAlien (line 824)
AlienAllowed == level >= 2

\* The random branch (lines 821-867): nothing, a scarecrow (from level 2), a
\* hay bale with or without a pie above it, or a lone pie
RandomSpawns(z, nld) ==
    {[objs |-> <<>>, next |-> nld, random |-> FALSE]}
    \cup (IF AlienAllowed
            THEN {[objs |-> <<AlienAt(l, z)>>, next |-> nld, random |-> TRUE] : l \in RandomLanes(laneCount)}
            ELSE {})
    \cup {[objs |-> <<ObstacleAt(l, z)>>, next |-> nld, random |-> TRUE] : l \in RandomLanes(laneCount)}
    \cup {[objs |-> <<ObstacleAt(l, z), GemAt(l, 2400, z, 100)>>, next |-> nld, random |-> TRUE] :
             l \in RandomLanes(laneCount)}
    \cup {[objs |-> <<GemAt(l, 1200, z, 50)>>, next |-> nld, random |-> TRUE] : l \in RandomLanes(laneCount)}

\* The spawning block (lines 774-868) over keptObjects: every outcome of its
\* random draws, as the entities pushed and the next letter threshold
Spawns(kept, dist, nld) ==
    IF FurthestZ(kept) > -SPAWN_DISTANCE
    THEN IF dist >= nld
         THEN LetterDueSpawns(SpawnZ(FurthestZ(kept)), nld)
         ELSE IF spawned < MaxRandomSpawns
         THEN RandomSpawns(SpawnZ(FurthestZ(kept)), nld)
         ELSE {[objs |-> <<>>, next |-> nld, random |-> FALSE]}
    ELSE {[objs |-> <<>>, next |-> nld, random |-> FALSE]}

\* A reset branch taken on the menu alone (isRestart and isVictoryReset of
\* line 633 left out).
IsResetMenuOnly(st) == st = "MENU"

\* The status / level effect (lines 627-654) run with status st and level lvl
\* over the refs given: which branch it takes
IsReset(st) ==
    \/ st = "MENU"
    \/ st = "PLAYING" /\ prevStatus = "GAME_OVER"
    \/ st = "PLAYING" /\ prevStatus = "VICTORY"
IsLevelUp(st, lvl) == lvl # prevLevel /\ st = "PLAYING" /\ lvl > 1

\* The portal the level-up branch pushes (lines 641-646)
Portal == Obj("SHOP_PORTAL", 0, 0, -100000)

\* A cull that keeps the static entities alone: pitchforks go, near or far.
KeptAtLevelUpStatic(o) == o.z > -80000 /\ o.type # "MISSILE"

\* The filter of the level-up branch (line 640)
KeptAtLevelUp(o) == o.z > -80000

EffectObjects(st, lvl, objs) ==
    IF IsReset(st) THEN <<>>
    ELSE IF IsLevelUp(st, lvl)
    THEN Append(SelectSeq(objs, KeptAtLevelUp), Portal)
    ELSE objs
EffectDistanceTraveled(st, lvl, dist) == IF IsReset(st) THEN 0 ELSE dist
EffectNextLetter(st, lvl, dist, nld) ==
    IF IsReset(st) THEN getLetterInterval(1)
    ELSE IF IsLevelUp(st, lvl) THEN dist - SPAWN_DISTANCE + getLetterInterval(lvl)
    ELSE nld
\* setDistance(Math.floor(distanceTraveled.current)) (lines 649-650)
EffectStoreDistance(st, lvl, dist, stored) ==
    IF ~IsReset(st) /\ ~IsLevelUp(st, lvl) /\ st \in {"GAME_OVER", "VICTORY"}
    THEN (dist \div 1000) * 1000
    ELSE stored

\* ShopScreen's mount effect (HUD.tsx lines 52-60): the item lists it can set
ShopPool ==
    {id \in ItemIds : ~(id = "DOUBLE_JUMP" /\ hasDoubleJump)
                      /\ ~(id = "IMMORTAL" /\ hasImmortality)}
ShopOffers == {S \in SUBSET ShopPool : Cardinality(S) = Min(3, Cardinality(ShopPool))}

\* SHOP_ITEMS[id].cost (HUD.tsx lines 15-46)
Cost(id) ==
    CASE id = "DOUBLE_JUMP" -> COST_DOUBLE_JUMP
      [] id = "MAX_LIFE" -> COST_MAX_LIFE
      [] id = "HEAL" -> COST_HEAL
      [] id = "IMMORTAL" -> COST_IMMORTAL

(* ------------------------------- Init ---------------------------------- *)

\* Construction: the store's initial state, the refs of Player (lines 44-58)
\* and of LevelManager (lines 618-625) after the first run of its effect with
\* status MENU.
Fresh ==
    [status |-> "MENU", score |-> 0, lives |-> BASE_MAX_LIVES, level |-> 1,
     collected |-> {}, hasImmortality |-> FALSE, objects |-> <<>>,
     distanceTraveled |-> 0, nextLetterDistance |-> getLetterInterval(1),
     isInvincible |-> FALSE, sinceDamage |-> 0, aloft |-> 0]

\* A run in progress: Playing at level lvl after dist units, the player
\* grounded in lane 0.
Running(lvl, objs, dist, nld) ==
    [Fresh EXCEPT !.status = "PLAYING", !.level = lvl, !.objects = objs,
                  !.distanceTraveled = dist, !.nextLetterDistance = nld]

\* Two hay bales the spawner has queued behind a lead entity at z: each was
\* spawned MinGap behind its predecessor, and they keep the spawner closed
\* while the lead entity reaches the player.
Queue(z) == <<ObstacleAt(1, z - MinGapOf(RUN_SPEED_BASE)),
              ObstacleAt(-1, z - 2 * MinGapOf(RUN_SPEED_BASE))>>

\* The portal of the level-up branch, eight ticks later, with the score s.
PortalAhead(s) ==
    [Running(2, <<[Portal EXCEPT !.z = -20000]>> \o Queue(-20000), 480000, 505000)
        EXCEPT !.score = s]

\* The portal two ticks ahead at level 2 with the word complete: behind it a
\* scarecrow that has fired, its pitchfork in flight, and two hay bales
\* beyond the spawn horizon.
PortalAfterWord ==
    [Running(2, <<[Portal EXCEPT !.z = -20000],
                  [AlienAt(1, -70000) EXCEPT !.hasFired = TRUE],
                  Obj("MISSILE", LANE_WIDTH, 1000, -66000)>> \o Queue(-70000),
             480000, 505000)
        EXCEPT !.collected = WordIndices]

\* A jump taken AloftMs ago on a closed road: the player comes down.
Descending ==
    [Running(1, Queue(-20000), 210000, 300000) EXCEPT !.aloft = AloftMs]

\* The jump refs n frames of ms after triggerJump on the ground
RECURSIVE Flight(_, _)
Flight(n, ms) ==
    IF n = 0
    THEN [y |-> 0, vel |-> JUMP_FORCE, isJumping |-> TRUE, jumps |-> 1, spin |-> 0]
    ELSE JumpStep(Flight(n - 1, ms), ms)

\* A hay bale with a pie above it two ticks ahead in the player's lane, with
\* n lives left.
HayAhead(n) ==
    [Running(1, <<ObstacleAt(0, -20000), GemAt(0, 2400, -20000, 100)>>
                  \o Queue(-20000), 110000, 150000)
        EXCEPT !.lives = n]

\* A scarecrow that has fired, and its pitchfork, in the player's lane; the
\* skill is owned or not, n lives are left.
ScarecrowAhead(owned, n) ==
    [Running(2, <<[AlienAt(0, -30000) EXCEPT !.hasFired = TRUE],
                  Obj("MISSILE", 0, 1000, -23000)>> \o Queue(-30000),
             700000, 800000)
        EXCEPT !.hasImmortality = owned, !.lives = n]

\* A scarecrow of lane l that has not fired, five units before the trigger
\* line.
ScarecrowComing(l) ==
    Running(2, <<AlienAt(l, -95000)>> \o Queue(-95000), 700000, 800000)

\* The last missing letter two ticks ahead in the player's lane.
LetterAhead(lvl) ==
    [Running(lvl, <<LetterAt(0, WordLen - 1, -20000)>> \o Queue(-20000),
             600000, 800000)
        EXCEPT !.collected = WordIndices \ {WordLen - 1}]

\* One tick before the next letter is due, behind a hay bale of the side
\* lane spawned three ticks earlier: the threshold is the one the reset
\* (level 1) or the level-up branch at 500 units per level has set.
DueAt(lvl) ==
    IF lvl = 1 THEN getLetterInterval(1)
    ELSE (lvl - 1) * 500000 - SPAWN_DISTANCE + getLetterInterval(lvl)
TickDist == (RUN_SPEED_BASE * MAX_DELTA) \div 1000
LetterDue(lvl) ==
    Running(lvl, <<ObstacleAt(1, 3 * TickDist - SPAWN_DISTANCE)>>,
            ((DueAt(lvl) - 1) \div TickDist) * TickDist, DueAt(lvl))

\* The last missing letter about to reach the player in the tick in which
\* the next letter falls due, the spawner open behind a hay bale of the side
\* lane.
LetterAtDue ==
    [Running(1, <<LetterAt(0, WordLen - 1, -3000), ObstacleAt(1, -100000)>>,
             2 * getLetterInterval(1) - 4000, 2 * getLetterInterval(1))
        EXCEPT !.collected = WordIndices \ {WordLen - 1}]

\* The word complete at level 1 with the spawner open: one tick before the
\* second threshold is crossed, behind a hay bale of the side lane, or 30
\* units past it, behind the fallback pie of an earlier opportunity.
PieDue(late) ==
    [Running(1,
             IF late THEN <<GemAt(0, 1200, -125000, 50)>>
                     ELSE <<ObstacleAt(1, 3 * TickDist - SPAWN_DISTANCE)>>,
             IF late THEN 2 * getLetterInterval(1) + 30000
                     ELSE 2 * getLetterInterval(1) - TickDist,
             2 * getLetterInterval(1))
        EXCEPT !.collected = WordIndices]

\* A hay bale two ticks ahead while the window of an earlier hit is about to
\* close.
WindowClosing ==
    [Running(1, <<ObstacleAt(0, -20000)>> \o Queue(-20000), 110000, 150000)
        EXCEPT !.lives = 2, !.isInvincible = TRUE,
               !.sinceDamage = INVINCIBLE_MS - 50]

\* A hay bale in lane l that reaches the player in the next tick at every
\* frame period, the player in lane 0.
HayNear(l) ==
    Running(1, <<ObstacleAt(l, -3000)>> \o Queue(-3000), 110000, 150000)

Scenes ==
    {Fresh, WindowClosing, Descending, LetterAtDue, PortalAfterWord}
    \cup {HayNear(l) : l \in {0, 1}}
    \cup {PortalAhead(s) : s \in InitScores}
    \cup {HayAhead(n) : n \in {1, BASE_MAX_LIVES}}
    \cup {ScarecrowAhead(owned, n) : owned \in BOOLEAN, n \in {1, BASE_MAX_LIVES}}
    \cup {ScarecrowComing(l) : l \in {0, 1}}
    \cup {PieDue(late) : late \in BOOLEAN}
    \cup {LetterAhead(lvl) : lvl \in {1, MAX_LEVEL}}
    \cup {LetterDue(lvl) : lvl \in 1..MAX_LEVEL}

InitScene(sc) ==
    /\ status = sc.status
    /\ score = sc.score
    /\ lives = sc.lives
    /\ maxLives = BASE_MAX_LIVES
    /\ level = sc.level
    /\ collectedLetters = sc.collected
    /\ distance = 0
    /\ speed = RUN_SPEED_BASE
    /\ laneCount = BASE_LANE_COUNT
    /\ hasDoubleJump = FALSE
    /\ hasImmortality = sc.hasImmortality
    /\ isImmortalityActive = FALSE
    /\ lane = 0
    /\ posX = 0
    /\ posY = Flight(sc.aloft \div frameMs, frameMs).y
    /\ isJumping = (sc.aloft > 0)
    /\ velocityY = (IF sc.aloft > 0 THEN Flight(sc.aloft \div frameMs, frameMs).vel ELSE 0)
    /\ jumpsPerformed = (IF sc.aloft > 0 THEN 1 ELSE 0)
    /\ spinRotation = 0
    /\ isInvincible = sc.isInvincible
    /\ sinceDamage = sc.sinceDamage
    /\ objects = sc.objects
    /\ prevStatus = sc.status
    /\ prevLevel = sc.level
    /\ distanceTraveled = sc.distanceTraveled
    /\ nextLetterDistance = sc.nextLetterDistance
    /\ shopItems = {}
    /\ ticks = 0
    /\ spawned = 0

Init ==
    /\ frameMs \in Deltas
    /\ \E sc \in Scenes : InitScene(sc)

(* ------------------------------ effects -------------------------------- *)

\* Player's status effect (lines 75-84), run when the status becomes st: the
\* jump refs and the height it leaves
PlayerReset(st, r) ==
    IF st # status /\ st = "PLAYING"
    THEN [y |-> 0, vel |-> 0, isJumping |-> FALSE, jumps |-> 0, spin |-> 0]
    ELSE r

SetJumpRefs(r) ==
    /\ posY' = r.y
    /\ velocityY' = r.vel
    /\ isJumping' = r.isJumping
    /\ jumpsPerformed' = r.jumps
    /\ spinRotation' = r.spin

\* LevelManager's effect (lines 627-654), run when status or level change to
\* st and lvl, over the refs and the stored distance as the handler leaves them
LevelEffect(st, lvl, objs, dist, nld, stored) ==
    IF st # status \/ lvl # level
    THEN /\ objects' = EffectObjects(st, lvl, objs)
         /\ distanceTraveled' = EffectDistanceTraveled(st, lvl, dist)
         /\ nextLetterDistance' = EffectNextLetter(st, lvl, dist, nld)
         /\ distance' = EffectStoreDistance(st, lvl, dist, stored)
         /\ prevStatus' = st
         /\ prevLevel' = lvl
    ELSE /\ objects' = objs
         /\ distanceTraveled' = dist
         /\ nextLetterDistance' = nld
         /\ distance' = stored
         /\ UNCHANGED <<prevStatus, prevLevel>>

(* --------------------------- store actions ----------------------------- *)

\* The store's reset to a new run, entered in Playing.
ResetRun ==
    /\ status' = "PLAYING"
    /\ score' = 0
    /\ lives' = BASE_MAX_LIVES
    /\ maxLives' = BASE_MAX_LIVES
    /\ level' = 1
    /\ collectedLetters' = {}
    /\ speed' = RUN_SPEED_BASE
    /\ laneCount' = BASE_LANE_COUNT
    /\ hasDoubleJump' = FALSE
    /\ hasImmortality' = FALSE
    /\ isImmortalityActive' = FALSE
    /\ lane' = ClampLane(lane, BASE_LANE_COUNT)
    /\ SetJumpRefs(PlayerReset("PLAYING", JumpRefs))
    /\ LevelEffect("PLAYING", 1, objects, distanceTraveled, nextLetterDistance, 0)
    /\ shopItems' = {}
    /\ UNCHANGED <<posX, isInvincible, sinceDamage, frameMs, ticks, spawned>>

\* The menu's start button (HUD.tsx lines 128-135)
StartGame ==
    /\ status = "MENU"
    /\ ResetRun

\* The restart buttons of the game-over and victory screens (HUD.tsx lines
\* 168-173, 198-203)
RestartGame ==
    /\ status \in {"GAME_OVER", "VICTORY"}
    /\ ResetRun

\* activateImmortality of the store: the owned skill is switched on
UseSkillStore ==
    IF hasImmortality /\ ~isImmortalityActive
    THEN isImmortalityActive' = TRUE
    ELSE UNCHANGED isImmortalityActive

\* The skill's timer runs out
SkillExpires ==
    /\ isImmortalityActive
    /\ isImmortalityActive' = FALSE
    /\ UNCHANGED <<status, score, lives, maxLives, level, collectedLetters,
                   distance, speed, laneCount, hasDoubleJump, hasImmortality,
                   playerVars, levelVars, shopItems, frameMs, ticks, spawned>>

\* The store hands a new lane count to the components; Player's clamp effect
\* (lines 86-91) follows
SetLaneCount(n) ==
    /\ n # laneCount
    /\ laneCount' = n
    /\ lane' = ClampLane(lane, n)
    /\ UNCHANGED <<status, score, lives, maxLives, level, collectedLetters,
                   distance, speed, hasDoubleJump, hasImmortality,
                   isImmortalityActive, posX, posY, isJumping, velocityY,
                   jumpsPerformed, spinRotation, isInvincible, sinceDamage,
                   levelVars, shopItems, frameMs, ticks, spawned>>

(* ----------------------------- commands -------------------------------- *)

\* Handlers without the guard of lines 110 and 131.
AcceptsAlways == TRUE

\* The guard of handleKeyDown and handleTouchEnd (lines 110, 131)
AcceptsCommands == status = "PLAYING"

\* What a command leaves alone
CommandFrame ==
    UNCHANGED <<status, score, lives, maxLives, level, collectedLetters,
                distance, speed, laneCount, hasDoubleJump, hasImmortality,
                posX, posY, isInvincible, sinceDamage, levelVars, shopItems,
                frameMs, ticks, spawned>>

\* ArrowLeft / swipe left (lines 113, 138)
MoveLeft ==
    /\ lane' = IF AcceptsCommands THEN Max(lane - 1, -MaxLane(laneCount)) ELSE lane
    /\ UNCHANGED <<isJumping, velocityY, jumpsPerformed, spinRotation,
                   isImmortalityActive>>
    /\ CommandFrame

\* ArrowRight / swipe right (lines 114, 137)
MoveRight ==
    /\ lane' = IF AcceptsCommands THEN Min(lane + 1, MaxLane(laneCount)) ELSE lane
    /\ UNCHANGED <<isJumping, velocityY, jumpsPerformed, spinRotation,
                   isImmortalityActive>>
    /\ CommandFrame

\* ArrowUp / w / swipe up (lines 115, 139-140)
Jump ==
    /\ IF AcceptsCommands
       THEN /\ isJumping' = JumpResult.isJumping
            /\ jumpsPerformed' = JumpResult.jumps
            /\ velocityY' = JumpResult.vel
            /\ spinRotation' = JumpResult.spin
       ELSE UNCHANGED <<isJumping, jumpsPerformed, velocityY, spinRotation>>
    /\ UNCHANGED <<lane, isImmortalityActive>>
    /\ CommandFrame

\* Space / Enter / tap (lines 116-118, 141-142)
UseSkill ==
    /\ IF AcceptsCommands THEN UseSkillStore ELSE UNCHANGED isImmortalityActive
    /\ UNCHANGED <<lane, isJumping, velocityY, jumpsPerformed, spinRotation>>
    /\ CommandFrame

(* ------------------------------- frames -------------------------------- *)

\* Player.useFrame, step 1 (lines 158-163)
PlayerX(delta) == Lerp(posX, lane * LANE_WIDTH, delta)

\* Player.useFrame, the invincibility block (lines 222-238) after delta ms
PlayerSince(delta) == Elapse(isInvincible, sinceDamage, delta)
PlayerInvincible(delta) == StillInvincible(isInvincible, PlayerSince(delta))

\* The record LevelManager.useFrame starts its loop with, after Player's
\* callback of the same frame
FrameStart(delta) ==
    [status |-> status, score |-> score, lives |-> lives,
     collected |-> collectedLetters,
     inv |-> PlayerInvincible(delta),
     since |-> IF PlayerInvincible(delta) THEN PlayerSince(delta) ELSE 0,
     kept |-> <<>>, spawns |-> <<>>, objs |-> <<>>, changed |-> FALSE]

\* The loop of LevelManager.useFrame over the entity store in this frame
FrameLoop(delta) ==
    StepObjects(FrameStart(delta), objects, 1, delta, PlayerX(delta),
                JumpPhysics(delta).y)

\* A callback that also runs while the shop is open.
FrameRunsInShop == status \in {"PLAYING", "SHOP"}

\* A callback without the return of line 666: the frame goes on after the run
\* has ended.
FrameRunsAfterEnd == status \in {"PLAYING", "GAME_OVER", "VICTORY"}

\* The guard of LevelManager.useFrame (line 666)
FrameRuns == status = "PLAYING"

\* A frame while Playing: Player.useFrame (lines 153-239), then
\* LevelManager.useFrame (lines 665-874) and the 'player-hit' listener it
\* calls, then the effects of the status the frame has set.
Tick ==
    /\ FrameRuns
    /\ ticks < MaxTicks
    /\ LET a == FrameLoop(frameMs)
           dist == distanceTraveled + FrameDist(frameMs)
           kept == a.kept \o a.spawns
       IN  /\ \E sp \in Spawns(kept, dist, nextLetterDistance) :
                /\ LevelEffect(a.status, level, kept \o sp.objs, dist, sp.next,
                               distance)
                /\ spawned' = spawned + (IF sp.random THEN 1 ELSE 0)
           /\ status' = a.status
           /\ score' = a.score
           /\ lives' = a.lives
           /\ collectedLetters' = a.collected
           /\ isInvincible' = a.inv
           /\ sinceDamage' = a.since
           /\ IF a.status = "SHOP"
              THEN shopItems' \in ShopOffers
              ELSE shopItems' = shopItems
    /\ posX' = PlayerX(frameMs)
    /\ SetJumpRefs(JumpPhysics(frameMs))
    /\ ticks' = ticks + 1
    /\ UNCHANGED <<maxLives, level, speed, laneCount, hasDoubleJump,
                   hasImmortality, isImmortalityActive, lane, frameMs>>

\* A frame while the shop is open: Player.useFrame alone
ShopFrame ==
    /\ status = "SHOP"
    /\ posX' = PlayerX(frameMs)
    /\ SetJumpRefs(JumpPhysics(frameMs))
    /\ isInvincible' = PlayerInvincible(frameMs)
    /\ sinceDamage' = IF PlayerInvincible(frameMs) THEN PlayerSince(frameMs) ELSE 0
    /\ UNCHANGED <<storeVars, lane, levelVars, shopItems, frameMs, ticks, spawned>>

\* The frames of a pause in Menu, GameOver or Victory: both callbacks return
\* at once, the wall clock goes on
IdleFrame ==
    /\ status \in {"MENU", "GAME_OVER", "VICTORY"}
    /\ sinceDamage' = PlayerSince(IdlePause)
    /\ UNCHANGED <<storeVars, lane, posX, posY, isJumping, velocityY,
                   jumpsPerformed, spinRotation, isInvincible, levelVars,
                   shopItems, frameMs, ticks, spawned>>

(* -------------------------------- shop --------------------------------- *)

\* A buy button that is never disabled.
canAffordAlways(id) == TRUE

\* canAfford (HUD.tsx line 74), which disables the buy button (line 84)
canAfford(id) == score >= Cost(id)

\* A purchase (HUD.tsx lines 78-88 and the store's buyItem)
BuyItem(id) ==
    /\ status = "SHOP"
    /\ id \in shopItems
    /\ canAfford(id)
    /\ score' = score - Cost(id)
    /\ hasDoubleJump' = (hasDoubleJump \/ id = "DOUBLE_JUMP")
    /\ hasImmortality' = (hasImmortality \/ id = "IMMORTAL")
    /\ maxLives' = IF id = "MAX_LIFE" THEN maxLives + 1 ELSE maxLives
    /\ lives' = IF id = "MAX_LIFE" THEN lives + 1
                ELSE IF id = "HEAL" THEN Min(lives + 1, maxLives)
                ELSE lives
    /\ UNCHANGED <<status, level, collectedLetters, distance, speed, laneCount,
                   isImmortalityActive, playerVars, levelVars, shopItems,
                   frameMs, ticks, spawned>>

\* The level the store leaves the shop with
LevelAfterShop ==
    IF collectedLetters = WordIndices /\ level < MAX_LEVEL THEN level + 1 ELSE level

\* The shop's continue button (HUD.tsx lines 94-99) and the store's closeShop
CloseShop ==
    /\ status = "SHOP"
    /\ status' = "PLAYING"
    /\ level' = LevelAfterShop
    /\ collectedLetters' = IF LevelAfterShop # level THEN {} ELSE collectedLetters
    /\ SetJumpRefs(PlayerReset("PLAYING", JumpRefs))
    /\ LevelEffect("PLAYING", LevelAfterShop, objects, distanceTraveled,
                   nextLetterDistance, distance)
    /\ shopItems' = {}
    /\ UNCHANGED <<score, lives, maxLives, speed, laneCount, hasDoubleJump,
                   hasImmortality, isImmortalityActive, lane, posX,
                   isInvincible, sinceDamage, frameMs, ticks, spawned>>

(* ---------------------------- specification ---------------------------- *)

Next ==
    \/ StartGame
    \/ RestartGame
    \/ MoveLeft
    \/ MoveRight
    \/ Jump
    \/ UseSkill
    \/ SkillExpires
    \/ \E n \in LaneCounts : SetLaneCount(n)
    \/ Tick
    \/ ShopFrame
    \/ IdleFrame
    \/ \E id \in ItemIds : BuyItem(id)
    \/ CloseShop

Spec == Init /\ [][Next]_vars

(* ------------------------------ properties ----------------------------- *)

\* C1: lives stays within 0..maxLives in every state, the run is over exactly
\* when no life is left, GameOver is entered only by the damage that takes
\* lives from 1 to 0, and once entered it is left only by the restart, lives
\* untouched until then.
C1_LivesBounded ==
    /\ [](0 <= lives /\ lives <= maxLives /\ (lives = 0 <=> status = "GAME_OVER"))
    /\ [][/\ (status # "GAME_OVER" /\ status' = "GAME_OVER")
                => (status = "PLAYING" /\ lives = 1 /\ lives' = 0)
          /\ status = "GAME_OVER"
                => \/ status' = "GAME_OVER" /\ lives' = lives
                   \/ status' = "PLAYING" /\ lives' = BASE_MAX_LIVES]_vars

\* The run has ended on the last life, after a purchase of a life or not.
C1_Witness == status = "GAME_OVER" /\ lives = 0 /\ isInvincible

\* A life bought in the shop: lives and maxLives have both grown.
C1_WitnessPurchase == status = "SHOP" /\ maxLives > BASE_MAX_LIVES /\ lives = maxLives

\* C2: the restart from GameOver or Victory leaves score 0, lives at the base
\* maximum, level 1, no collected letter, both distances 0, an empty entity
\* store and the threshold at interval(1), whatever the state before it.
C2_RestartResets ==
    [][(status \in {"GAME_OVER", "VICTORY"} /\ status' # status)
          => /\ status' = "PLAYING"
             /\ score' = 0
             /\ lives' = BASE_MAX_LIVES
             /\ maxLives' = BASE_MAX_LIVES
             /\ level' = 1
             /\ collectedLetters' = {}
             /\ distance' = 0
             /\ distanceTraveled' = 0
             /\ objects' = <<>>
             /\ nextLetterDistance' = BASE_LETTER_INTERVAL]_vars

\* A new run right after the restart that followed a fatal hit: the window
\* of that hit is the only trace of the run before.
C2_Witness ==
    /\ status = "PLAYING" /\ isInvincible /\ lives = BASE_MAX_LIVES
    /\ score = 0 /\ objects = <<>> /\ distanceTraveled = 0

\* C3: a Jump command taken in the air with the jump count at its maximum
\* (1, or 2 with the double jump) leaves lane, jump count, velocity, height
\* and spin as they were.
C3_JumpAtMaxIsNoOp ==
    [][(Jump /\ status = "PLAYING" /\ isJumping /\ jumpsPerformed >= MaxJumps)
          => UNCHANGED <<lane, posX, posY, isJumping, velocityY, jumpsPerformed,
                         spinRotation>>]_vars

\* In the air after the second jump of a double jump.
C3_Witness ==
    /\ status = "PLAYING" /\ hasDoubleJump /\ isJumping
    /\ jumpsPerformed = 2 /\ velocityY < JUMP_FORCE

\* C4: the jump count never exceeds the jumps allowed, 1 or 2 with the
\* double jump, and is never negative.
C4_JumpCountBounded == 0 <= jumpsPerformed /\ jumpsPerformed <= MaxJumps

\* The second jump of a double jump has been taken.
C4_Witness == hasDoubleJump /\ jumpsPerformed = 2

\* C5: on the ground, that is not jumping or with jump count 0, the vertical
\* velocity and the height are 0.
C5_GroundedAtRest ==
    (~isJumping \/ jumpsPerformed = 0) => (velocityY = 0 /\ posY = 0)

\* The player picked up in the air has landed while Playing.
C5_Witness ==
    /\ status = "PLAYING" /\ ~isJumping /\ ticks >= 1
    /\ nextLetterDistance = 300000 /\ distanceTraveled > 210000

\* C6: the lane stays within -floor(laneCount / 2) .. floor(laneCount / 2)
\* after every move command and every change of the lane count.
C6_LaneInRange ==
    -MaxLane(laneCount) <= lane /\ lane <= MaxLane(laneCount)

\* The lane count has shrunk to one lane under a player who was on the way
\* to a side lane: the lane is clamped, the render offset still off centre.
C6_Witness == laneCount = MinLaneCount /\ lane = 0 /\ posX # 0

\* C7: a move, jump or skill command taken while the status is not Playing
\* changes neither lane nor jump state nor velocity nor the skill.
C7_CommandsIgnored ==
    [][((MoveLeft \/ MoveRight \/ Jump \/ UseSkill) /\ status # "PLAYING")
          => UNCHANGED <<lane, isJumping, jumpsPerformed, velocityY,
                         spinRotation, isImmortalityActive>>]_vars

\* In the shop, on the ground in the middle lane of the widest road, a jump
\* and a move to either side at hand.
C7_Witness ==
    /\ status = "SHOP" /\ ~isJumping /\ lane = 0 /\ laneCount = MaxLaneCount

\* C8: interval(L) is 150, 225 and 337.5 units for L = 1, 2, 3; a tick that
\* spawns a Letter raises the threshold by interval(level), and the threshold
\* changes in no other step but the level-up recomputation and the reset.
C8_LetterThreshold ==
    /\ [](/\ getLetterInterval(1) = 150000
          /\ getLetterInterval(2) = 225000
          /\ getLetterInterval(3) = 337500)
    /\ [][LET tick == status = "PLAYING" /\ ticks' = ticks + 1
              step == (speed * Min(frameMs, MAX_DELTA)) \div 1000
              old(o) == \E i \in 1..Len(objects) :
                           /\ objects[i].type = "LETTER"
                           /\ objects[i].x = o.x
                           /\ objects[i].targetIndex = o.targetIndex
                           /\ objects[i].z + step = o.z
              spawnsLetter == \E j \in 1..Len(objects') :
                                 objects'[j].type = "LETTER" /\ ~old(objects'[j])
              interval == (BASE_LETTER_INTERVAL * Pow(3, level - 1)) \div Pow(2, level - 1)
          IN  /\ (tick /\ spawnsLetter)
                    => nextLetterDistance' = nextLetterDistance + interval
              /\ nextLetterDistance' # nextLetterDistance
                    => \/ tick /\ spawnsLetter
                       \/ /\ level' # level /\ level' > 1 /\ status' = "PLAYING"
                          /\ nextLetterDistance' =
                               distanceTraveled - SPAWN_DISTANCE + getLetterInterval(level')
                       \/ /\ status \in {"GAME_OVER", "VICTORY"} /\ status' = "PLAYING"
                          /\ nextLetterDistance' = BASE_LETTER_INTERVAL]_vars

\* A letter spawned at level 3 beyond the spawn horizon, the threshold one
\* interval(3) past the one the level-up had set.
C8_Witness ==
    /\ level = 3
    /\ nextLetterDistance = DueAt(3) + 337500
    /\ \E i \in 1..Len(objects) :
          objects[i].type = "LETTER" /\ objects[i].z <= -SPAWN_DISTANCE

\* C9: over a Playing tick every entity that stays in the store has moved
\* toward the player by speed * dt, a pitchfork by MISSILE_SPEED * dt more,
\* and it leaves the store only past the removal distance or as the portal
\* at the player; no other step moves an entity, it only removes entities or
\* adds the portal.
C9_ForwardOnly ==
    [][LET tick == status = "PLAYING" /\ ticks' = ticks + 1
           dt == Min(frameMs, MAX_DELTA)
           shift(o) == (speed * dt) \div 1000
                         + (IF o.type = "MISSILE" THEN (MISSILE_SPEED * dt) \div 1000 ELSE 0)
           moved(o) == \E j \in 1..Len(objects') :
                          /\ objects'[j].type = o.type
                          /\ objects'[j].x = o.x
                          /\ objects'[j].y = o.y
                          /\ objects'[j].z = o.z + shift(o)
                          /\ objects'[j].z >= o.z
           gone(o) == \/ o.z + shift(o) > REMOVE_DISTANCE
                      \/ o.type = "SHOP_PORTAL" /\ Abs(o.z + shift(o)) < 2000
       IN  IF tick
           THEN \A i \in 1..Len(objects) : moved(objects[i]) \/ gone(objects[i])
           ELSE \A j \in 1..Len(objects') :
                   \/ \E i \in 1..Len(objects) : objects'[j] = objects[i]
                   \/ objects'[j] = Portal]_vars

\* A pitchfork in flight, ahead of where the model picked it up.
C9_Witness ==
    \E i \in 1..Len(objects) :
       objects[i].type = "MISSILE" /\ objects[i].active /\ objects[i].z > -23000

\* C10: in a tick in which an active hay bale, scarecrow or pitchfork meets
\* the hit test, every such entity is deactivated; with the window or the
\* skill active lives and window stay as they were, otherwise lives drops by
\* exactly 1 and the window starts.
C10_HitWhileShielded ==
    [][LET tick == status = "PLAYING" /\ ticks' = ticks + 1
           newZ(o) == o.z + MoveAmount(o, frameMs)
           hits == {i \in 1..Len(objects) :
                       DamageHit(objects[i], objects[i].z, newZ(objects[i]),
                                 PlayerX(frameMs), JumpPhysics(frameMs).y)}
           shielded == PlayerInvincible(frameMs) \/ isImmortalityActive
           off(o) == \E j \in 1..Len(objects') :
                        /\ objects'[j].type = o.type
                        /\ objects'[j].x = o.x
                        /\ objects'[j].z = newZ(o)
                        /\ ~objects'[j].active
       IN  (tick /\ hits # {})
              => /\ \A i \in hits : off(objects[i])
                 /\ IF shielded
                    THEN /\ lives' = lives
                         /\ status' = status
                         /\ isInvincible' = PlayerInvincible(frameMs)
                         /\ sinceDamage' = (IF PlayerInvincible(frameMs)
                                              THEN PlayerSince(frameMs) ELSE 0)
                    ELSE /\ lives' = lives - 1
                         /\ isInvincible'
                         /\ sinceDamage' = 0]_vars

\* The pitchfork has cost a life and the scarecrow behind it, met inside the
\* window, has not: both are spent.
C10_Witness ==
    /\ lives = BASE_MAX_LIVES - 1 /\ isInvincible
    /\ \E i \in 1..Len(objects) : objects[i].type = "ALIEN" /\ ~objects[i].active
    /\ \E i \in 1..Len(objects) : objects[i].type = "MISSILE" /\ ~objects[i].active

\* C11: a tick in which the player picks up a letter carrying the last missing
\* index completes the word; below the last level the status is not Victory
\* after it, at the last level it is.  Victory is entered in no other way,
\* and once entered it is left only by the restart into a new run.
C11_VictoryAtLastLevel ==
    [][LET tick == status = "PLAYING" /\ ticks' = ticks + 1
           last(o) == /\ o.type = "LETTER"
                      /\ o.targetIndex \in WordIndices
                      /\ collectedLetters \cup {o.targetIndex} = WordIndices
                      /\ collectedLetters # WordIndices
           picked == \E i \in 1..Len(objects) :
                        /\ last(objects[i])
                        /\ PickupHit(objects[i], objects[i].z,
                                     objects[i].z + MoveAmount(objects[i], frameMs),
                                     PlayerX(frameMs), JumpPhysics(frameMs).y)
       IN  /\ (tick /\ picked)
                 => /\ collectedLetters' = WordIndices
                    /\ level < MAX_LEVEL => status' # "VICTORY"
                    /\ level = MAX_LEVEL => status' = "VICTORY"
           /\ (status # "VICTORY" /\ status' = "VICTORY")
                 => tick /\ picked /\ level = MAX_LEVEL
           /\ status = "VICTORY"
                 => \/ status' = "VICTORY" /\ collectedLetters' = collectedLetters
                    \/ status' = "PLAYING" /\ level' = 1 /\ collectedLetters' = {}]_vars

\* The word has been completed at the last level: the run is won.
C11_Witness ==
    status = "VICTORY" /\ level = MAX_LEVEL /\ collectedLetters = WordIndices

\* The word has been completed at level 1: the run goes on.
C11_WitnessBelow ==
    status = "PLAYING" /\ level = 1 /\ collectedLetters = WordIndices /\ ticks >= 1

\* C12: a portal in the store is active and has triggered nothing; in the
\* Playing tick that brings an active portal within 2 units of the player the
\* shop opens and the portal leaves the store, so it cannot trigger again.
C12_PortalOnce ==
    /\ [](\A i \in 1..Len(objects) :
             objects[i].type = "SHOP_PORTAL"
                => objects[i].active /\ objects[i].outcomes = 0)
    /\ [][LET tick == status = "PLAYING" /\ ticks' = ticks + 1
               step == (speed * Min(frameMs, MAX_DELTA)) \div 1000
               near(o) == /\ o.type = "SHOP_PORTAL" /\ o.active
                          /\ Abs(o.z + step) < 2000
               portals(objs) == Cardinality({i \in 1..Len(objs) :
                                                objs[i].type = "SHOP_PORTAL"})
           IN  (tick /\ \E i \in 1..Len(objects) : near(objects[i]))
                  => /\ status' = "SHOP"
                     /\ portals(objects') < portals(objects)
                     /\ \A j \in 1..Len(objects') :
                           objects'[j].type = "SHOP_PORTAL"
                              => Abs(objects'[j].z) >= 2000]_vars

\* The shop has been opened by the portal and closed again: the run goes on
\* with the portal gone and the entities behind it still on the road.
C12_Witness ==
    /\ status = "PLAYING" /\ level = 2 /\ distanceTraveled = 500000
    /\ Len(objects) >= 2
    /\ \A i \in 1..Len(objects) : objects[i].type # "SHOP_PORTAL"

C14_TerminalUntilRestart ==
    [][(status = "GAME_OVER" \/ status = "VICTORY")
          => \/ /\ status' = status
                /\ UNCHANGED <<score, lives, level, collectedLetters, objects,
                               distanceTraveled, distance>>
             \/ /\ status' = "PLAYING"
                /\ score' = 0 /\ lives' = BASE_MAX_LIVES /\ level' = 1
                /\ collectedLetters' = {} /\ Len(objects') = 0]_vars

\* The run is over and the window of the fatal hit has run out on the
\* game-over screen, the entities still where the last tick left them.
C14_Witness ==
    /\ status = "GAME_OVER" /\ sinceDamage > INVINCIBLE_MS /\ objects # <<>>

\* C15: in a Playing tick the distance and every entity advance by at most
\* speed * 0.05 s, and an airborne player's velocity drops by at most
\* GRAVITY * 0.05 s and the height moves by at most |velocity| * 0.05 s,
\* whatever the frame's raw delta.
C15_ClampedSteps ==
    [][LET tick == status = "PLAYING" /\ ticks' = ticks + 1
       IN  tick
             => /\ distanceTraveled' - distanceTraveled
                      <= (speed * MAX_DELTA) \div 1000
                /\ (isJumping /\ isJumping')
                      => /\ velocityY - velocityY' <= (GRAVITY * MAX_DELTA) \div 1000
                         /\ Abs(posY' - posY)
                               <= (Abs(velocityY) * MAX_DELTA) \div 1000]_vars

\* C16: the damage window runs on the time the ticks supply: a step that is
\* not a Playing tick (a pause on a screen, a frame in the shop, a command)
\* neither closes the window nor moves the time elapsed since the damage.
C16_WindowOnTickClock ==
    [][LET tick == status = "PLAYING" /\ ticks' = ticks + 1
       IN  ~tick => UNCHANGED <<isInvincible, sinceDamage>>]_vars

\* C17: within a Playing tick, once an outcome has moved the status away
\* from Playing, no further outcome of that tick reaches the progression:
\* score, lives, letters and status after each later entity of the loop are
\* what they were before it.
C17_TransitionAtTickBoundary ==
    [][LET tick == status = "PLAYING" /\ ticks' = ticks + 1
           px == PlayerX(frameMs)
           py == JumpPhysics(frameMs).y
           before(k) == StepObjects(FrameStart(frameMs), SubSeq(objects, 1, k - 1),
                                    1, frameMs, px, py)
           after(k) == StepObject(before(k), objects[k], frameMs, px, py)
       IN  tick
             => \A k \in 1..Len(objects) :
                   before(k).status # "PLAYING"
                      => /\ after(k).status = before(k).status
                         /\ after(k).score = before(k).score
                         /\ after(k).lives = before(k).lives
                         /\ after(k).collected = before(k).collected]_vars

\* C18: the score is a non-negative integer in every state, whatever pies
\* were collected and whatever was bought, one item or several in one visit
\* of the shop.
C18_ScoreNonNegative == score \in Nat

\* Two items bought in one visit of the shop have used the score up.
C18_Witness ==
    /\ status = "SHOP" /\ score = 0
    /\ hasDoubleJump /\ maxLives = BASE_MAX_LIVES + 1

\* C19 as stated: a frame that leaves the player in the air lowers the
\* velocity by GRAVITY * dt and then advances the height by the lowered
\* velocity * dt.
C19_VelocityFirst ==
    [][((Tick \/ ShopFrame) /\ isJumping /\ isJumping')
          => /\ velocityY' = velocityY - (GRAVITY * frameMs) \div 1000
             /\ posY' = posY + (velocityY' * frameMs) \div 1000]_vars

\* C19 as amended: a frame of dt with the player in the air advances the
\* height by the velocity before the step * dt and then lowers the velocity
\* by GRAVITY * dt; when the height so reached is <= 0 the player lands with
\* height 0 and velocity 0 instead.
C19_HeightFirst ==
    [][((Tick \/ ShopFrame) /\ isJumping)
          => LET y1 == posY + (velocityY * frameMs) \div 1000
                 v1 == velocityY - (GRAVITY * frameMs) \div 1000
             IN  IF y1 <= 0
                 THEN ~isJumping' /\ posY' = 0 /\ velocityY' = 0
                 ELSE isJumping' /\ posY' = y1 /\ velocityY' = v1]_vars

\* A tick further down the fall, still in the air.
C19_Witness ==
    /\ status = "PLAYING" /\ isJumping /\ ticks >= 1
    /\ posY > 0 /\ velocityY < 0

\* C20: the lateral test of a Playing tick is taken against the player's
\* lane, lane * LANE_WIDTH: an active hay bale, scarecrow or pitchfork in the
\* hit zone is spent by the tick exactly when it is within 0.9 units of the
\* lane the player has moved to and overlaps the player vertically.
C20_LateralTestOnLane ==
    [][LET tick == status = "PLAYING" /\ ticks' = ticks + 1
           newZ(o) == o.z + MoveAmount(o, frameMs)
           spent(o) == \E j \in 1..Len(objects') :
                          /\ objects'[j].type = o.type
                          /\ objects'[j].x = o.x
                          /\ objects'[j].z = newZ(o)
                          /\ ~objects'[j].active
       IN  tick
             => \A i \in 1..Len(objects) :
                   (objects[i].active /\ IsDamageSource(objects[i]))
                      => (spent(objects[i])
                            <=> DamageHit(objects[i], objects[i].z, newZ(objects[i]),
                                          lane * LANE_WIDTH,
                                          JumpPhysics(frameMs).y))]_vars

\* C21: at every height the player reaches, a scarecrow and a pitchfork in
\* the player's lane either both pass or both fail the vertical test, and a
\* hay bale passes it exactly when the player's span [height, height + 1.6]
\* overlaps the band [0, 1.4].
C21_OneElevatedBand ==
    /\ VerticalHit(AlienAt(lane, 0), posY)
          <=> VerticalHit(Obj("MISSILE", lane * LANE_WIDTH, 1000, 0), posY)
    /\ VerticalHit(ObstacleAt(lane, 0), posY)
          <=> (posY < 1400 /\ posY + 1600 > 0)

\* C22: an active hay bale, pie, letter, scarecrow or pitchfork that a
\* Playing tick carries from not past the player to past the player is inside
\* the longitudinal zone in that tick, whatever the distance travelled in it,
\* and the tick spends it exactly when its lateral and vertical tests pass.
C22_NoTunneling ==
    [][LET tick == status = "PLAYING" /\ ticks' = ticks + 1
           px == PlayerX(frameMs)
           py == JumpPhysics(frameMs).y
           newZ(o) == o.z + MoveAmount(o, frameMs)
           crosses(p, q) == p <= 0 /\ q >= 0
           spent(o) == \E j \in 1..Len(objects') :
                          /\ objects'[j].type = o.type
                          /\ objects'[j].x = o.x
                          /\ objects'[j].y = o.y
                          /\ objects'[j].z = newZ(o)
                          /\ ~objects'[j].active
           passes(o) == /\ Abs(o.x - px) < 900
                        /\ IF o.type \in {"OBSTACLE", "ALIEN", "MISSILE"}
                           THEN py < ObjTop(o) /\ py + 1600 > ObjBottom(o)
                           ELSE Abs(o.y - py) < 2500
       IN  tick
             => \A i \in 1..Len(objects) :
                   (objects[i].active /\ objects[i].type # "SHOP_PORTAL")
                      => /\ \A d \in 1..MaxTravel :
                               crosses(objects[i].z, objects[i].z + d * 1000)
                                  => InZZone(objects[i].z, objects[i].z + d * 1000)
                         /\ crosses(objects[i].z, newZ(objects[i]))
                               => (spent(objects[i]) <=> passes(objects[i]))]_vars

\* A hay bale has gone past the player, who had left its lane: it was tested
\* on the way and is still active behind the player.
C22_Witness ==
    /\ status = "PLAYING" /\ lane # 0 /\ lives = BASE_MAX_LIVES
    /\ \E i \in 1..Len(objects) :
          /\ objects[i].type = "OBSTACLE" /\ objects[i].active
          /\ objects[i].x = 0 /\ objects[i].z > 0

\* C23: every entity of the store has produced at most one collision
\* outcome, and none while inactive: an active entity has produced none, an
\* inactive entity stays inactive with its count through every tick, and a
\* tick changes lives, score, letters or opens the shop only when an active
\* entity of the matching kind is in reach.
C23_OneOutcomePerEntity ==
    /\ [](\A i \in 1..Len(objects) :
             /\ objects[i].outcomes \in {0, 1}
             /\ objects[i].active => objects[i].outcomes = 0)
    /\ [][LET tick == status = "PLAYING" /\ ticks' = ticks + 1
               newZ(o) == o.z + MoveAmount(o, frameMs)
               inReach(o) == o.active /\ o.z < 2000 /\ newZ(o) > -2000
               still(o) == \E j \in 1..Len(objects') :
                              /\ objects'[j].type = o.type
                              /\ objects'[j].x = o.x
                              /\ objects'[j].z = newZ(o)
                              /\ ~objects'[j].active
                              /\ objects'[j].outcomes = o.outcomes
               some(T) == \E i \in 1..Len(objects) :
                             objects[i].type \in T /\ inReach(objects[i])
           IN  tick
                 => /\ \A i \in 1..Len(objects) :
                          ~objects[i].active
                             => still(objects[i]) \/ newZ(objects[i]) > REMOVE_DISTANCE
                    /\ lives' # lives => some({"OBSTACLE", "ALIEN", "MISSILE"})
                    /\ score' # score => some({"GEM"})
                    /\ collectedLetters' # collectedLetters => some({"LETTER"})
                    /\ status' = "SHOP" => some({"SHOP_PORTAL"})]_vars

\* A hay bale that cost a life has spent a further tick inside the zone, in
\* the player's lane and inactive, and has produced no second outcome.
C23_Witness ==
    /\ status = "PLAYING" /\ lives = BASE_MAX_LIVES - 1 /\ ticks >= 2
    /\ \E i \in 1..Len(objects) :
          /\ objects[i].type = "OBSTACLE" /\ ~objects[i].active
          /\ objects[i].outcomes = 1
          /\ Abs(objects[i].x - posX) < 900
          /\ objects[i].z - MoveAmount(objects[i], frameMs) > -2000
          /\ objects[i].z - MoveAmount(objects[i], frameMs) < 2000

\* C24: after every Playing tick no entity of the store, active or not, lies
\* beyond REMOVE_DISTANCE: an entity the tick moves past it is gone.  A tick
\* that removes an inactive entity while no active entity is in reach leaves
\* score, lives, letters, status and the damage window as they were.
C24_PrunedPastHorizon ==
    [][LET tick == status = "PLAYING" /\ ticks' = ticks + 1
           newZ(o) == o.z + MoveAmount(o, frameMs)
           inReach(o) == o.active /\ o.z < 2000 /\ newZ(o) > -2000
           removesInactive == \E i \in 1..Len(objects) :
                                 ~objects[i].active /\ newZ(objects[i]) > REMOVE_DISTANCE
       IN  tick
             => /\ \A j \in 1..Len(objects') : objects'[j].z <= REMOVE_DISTANCE
                /\ Len(objects') >= Cardinality({i \in 1..Len(objects) :
                                                   /\ newZ(objects[i]) <= REMOVE_DISTANCE
                                                   /\ objects[i].type # "SHOP_PORTAL"})
                /\ (removesInactive /\ \A i \in 1..Len(objects) : ~inReach(objects[i]))
                      => /\ UNCHANGED <<score, lives, collectedLetters, status>>
                         /\ isInvincible' = PlayerInvincible(frameMs)]_vars

\* The hay bale that cost a life three ticks ago has been pruned: the window
\* of its hit is still open and only active entities are left.
C24_Witness ==
    /\ status = "PLAYING" /\ ticks = 3 /\ isInvincible
    /\ lives = BASE_MAX_LIVES - 1 /\ score = 0
    /\ Len(objects) >= 2
    /\ \A i \in 1..Len(objects) : objects[i].active

\* C25: in a Playing tick, every active scarecrow that has not fired and is
\* carried past the trigger line z = -90 has hasFired set, with one pitchfork
\* at its x, height 1 and 2 units in front of it; a scarecrow that has fired
\* keeps hasFired; the pitchforks of the store grow by exactly one per firing
\* scarecrow, and no other step adds a pitchfork.
C25_FiresOnce ==
    [][LET tick == status = "PLAYING" /\ ticks' = ticks + 1
           newZ(o) == o.z + MoveAmount(o, frameMs)
           aliens == {i \in 1..Len(objects) : objects[i].type = "ALIEN"}
           firing == {i \in aliens : /\ objects[i].active
                                     /\ ~objects[i].hasFired
                                     /\ newZ(objects[i]) > -90000}
           missiles(objs) == {j \in 1..Len(objs) : objs[j].type = "MISSILE"}
           staying == {j \in missiles(objects) : newZ(objects[j]) <= REMOVE_DISTANCE}
           image(o, fired) == \E j \in 1..Len(objects') :
                                 /\ objects'[j].type = "ALIEN"
                                 /\ objects'[j].x = o.x
                                 /\ objects'[j].z = newZ(o)
                                 /\ objects'[j].hasFired = fired
           fork(o) == \E j \in missiles(objects') :
                         /\ objects'[j].x = o.x
                         /\ objects'[j].y = 1000
                         /\ objects'[j].z = newZ(o) + 2000
                         /\ objects'[j].active
       IN  IF tick
           THEN /\ \A i \in firing : image(objects[i], TRUE) /\ fork(objects[i])
                /\ \A i \in aliens \ firing :
                      newZ(objects[i]) <= REMOVE_DISTANCE
                         => image(objects[i], objects[i].hasFired)
                /\ Cardinality(missiles(objects'))
                      = Cardinality(staying) + Cardinality(firing)
           ELSE Cardinality(missiles(objects')) <= Cardinality(missiles(objects))]_vars

\* The scarecrow fired a tick ago: it has moved on with hasFired set, and its
\* one pitchfork flies ahead of it.
C25_Witness ==
    /\ status = "PLAYING" /\ ticks >= 2
    /\ Cardinality({j \in 1..Len(objects) : objects[j].type = "MISSILE"}) = 1
    /\ \E i \in 1..Len(objects) :
          /\ objects[i].type = "ALIEN" /\ objects[i].active /\ objects[i].hasFired
          /\ objects[i].z < -60000
          /\ \E j \in 1..Len(objects) :
                /\ objects[j].type = "MISSILE" /\ objects[j].x = objects[i].x
                /\ objects[j].z > objects[i].z + 2000

\* C26: while the level is 1 the store holds no scarecrow and no pitchfork.
\* A tick at level 1 adds no scarecrow, a tick adds at most one pitchfork per
\* scarecrow that has not fired, and every step that brings the level back
\* to 1 leaves the store empty.
C26_NoEnemyAtLevelOne ==
    /\ [](level = 1
             => \A i \in 1..Len(objects) :
                   objects[i].type \notin {"ALIEN", "MISSILE"})
    /\ [][LET count(objs, t) == Cardinality({j \in 1..Len(objs) : objs[j].type = t})
               unfired == Cardinality({i \in 1..Len(objects) :
                                          /\ objects[i].type = "ALIEN"
                                          /\ ~objects[i].hasFired})
           IN  /\ level < 2 => count(objects', "ALIEN") <= count(objects, "ALIEN")
               /\ count(objects', "MISSILE") <= count(objects, "MISSILE") + unfired
               /\ (level # 1 /\ level' = 1) => Len(objects') = 0]_vars

\* A new run after the restart that followed a fatal hit: the spawner has
\* taken its random branch at level 1 and the store holds what it built.
C26_Witness ==
    /\ status = "PLAYING" /\ level = 1 /\ isInvincible /\ lives = BASE_MAX_LIVES
    /\ spawned = 1 /\ objects # <<>> /\ distanceTraveled <= TickDist

\* C27: a Playing tick whose spawn opportunity comes with the distance at or
\* past the letter threshold adds exactly one entity beyond the spawn
\* horizon: a letter for a word index that is not among the collected
\* letters at that moment when there is one, a pie otherwise.
C27_LetterForMissingIndex ==
    [][LET tick == status = "PLAYING" /\ ticks' = ticks + 1
           a == FrameLoop(frameMs)
           open == FurthestZ(a.kept \o a.spawns) > -SPAWN_DISTANCE
           due == distanceTraveled + FrameDist(frameMs) >= nextLetterDistance
           new == {j \in 1..Len(objects') :
                      /\ j > Len(a.kept \o a.spawns)
                      /\ objects'[j].z <= -SPAWN_DISTANCE}
           missing == WordIndices \ collectedLetters'
       IN  (tick /\ open /\ due)
              => /\ Cardinality(new) = 1
                 /\ Len(objects') = Len(a.kept \o a.spawns) + 1
                 /\ \A j \in new :
                       IF missing # {}
                       THEN /\ objects'[j].type = "LETTER"
                            /\ objects'[j].targetIndex \in missing
                       ELSE objects'[j].type = "GEM"]_vars

\* C28: a Playing tick appends spawned entities only when the store, after
\* the move and the prune, holds no entity other than pitchforks or its
\* farthest such entity is nearer than SPAWN_DISTANCE; what it appends lies
\* at one and the same z, at or beyond SPAWN_DISTANCE and at least
\* 12 + 0.4 * speed behind that farthest entity.
C28_SpawnBeyondHorizon ==
    [][LET tick == status = "PLAYING" /\ ticks' = ticks + 1
           a == FrameLoop(frameMs)
           kept == a.kept \o a.spawns
           statics == {i \in 1..Len(kept) : kept[i].type # "MISSILE"}
           new == {j \in 1..Len(objects') : j > Len(kept)}
           gap == 12000 + (speed * 4) \div 10
       IN  (tick /\ new # {})
              => /\ \/ statics = {}
                    \/ \A i \in statics : kept[i].z > -SPAWN_DISTANCE
                 /\ \A j \in new :
                       /\ objects'[j].z <= -SPAWN_DISTANCE
                       /\ \A i \in statics : objects'[j].z <= kept[i].z - gap
                       /\ \A k \in new : objects'[k].z = objects'[j].z]_vars

\* The spawner has placed an entity beyond the horizon, a gap and more
\* behind the entity that was the farthest.
C28_Witness ==
    /\ status = "PLAYING" /\ spawned = 1
    /\ \E i, j \in 1..Len(objects) :
          /\ objects[i].z > -SPAWN_DISTANCE
          /\ objects[j].z < -SPAWN_DISTANCE
          /\ objects[j].z <= objects[i].z - MinGap

C30_FrozenOutsidePlaying ==
    [][LET tick == status = "PLAYING" /\ ticks' = ticks + 1
       IN  /\ ((ShopFrame \/ IdleFrame) /\ status # "PLAYING")
                 => UNCHANGED <<objects, distanceTraveled, nextLetterDistance>>
           /\ (status # "PLAYING" /\ status' = status)
                 => UNCHANGED <<objects, distanceTraveled, nextLetterDistance>>
           /\ distanceTraveled' # distanceTraveled
                 => \/ /\ tick
                       /\ distanceTraveled' =
                            distanceTraveled + (speed * Min(frameMs, MAX_DELTA)) \div 1000
                    \/ /\ status \in {"MENU", "GAME_OVER", "VICTORY"}
                       /\ status' = "PLAYING"
                       /\ distanceTraveled' = 0
           /\ distanceTraveled' < distanceTraveled => distanceTraveled' = 0]_vars

\* Frames have gone by on the game-over screen: the clock of the fatal hit
\* has moved, the entities and the distance of the last tick are in place.
C30_Witness ==
    /\ status = "GAME_OVER" /\ sinceDamage > 0 /\ objects # <<>>
    /\ distanceTraveled >= TickDist
    /\ distance = (distanceTraveled \div 1000) * 1000

\* C31: a shop screen offers at most 3 items, and a one-time upgrade the
\* player owns (double jump, immortality) is not purchasable on it: it is not
\* on the list with its buy button enabled, in the visit in which it was
\* bought or in a later one.
C31_OwnedNotPurchasable ==
    status = "SHOP"
       => /\ Cardinality(shopItems) <= 3
          /\ \A id \in shopItems :
                (\/ id = "DOUBLE_JUMP" /\ hasDoubleJump
                 \/ id = "IMMORTAL" /\ hasImmortality)
                   => ~(score >= Cost(id))

\* C32: no step takes more than one life, only a Playing tick takes one, and
\* a tick that starts inside the damage window takes none; in a tick in
\* which two or more damage sources meet the hit test all of them are
\* deactivated and at most one life is lost.
C32_OneLifePerTick ==
    [][LET tick == status = "PLAYING" /\ ticks' = ticks + 1
           newZ(o) == o.z + MoveAmount(o, frameMs)
           hits == {i \in 1..Len(objects) :
                       DamageHit(objects[i], objects[i].z, newZ(objects[i]),
                                 PlayerX(frameMs), JumpPhysics(frameMs).y)}
           off(o) == \E j \in 1..Len(objects') :
                        /\ objects'[j].type = o.type
                        /\ objects'[j].x = o.x
                        /\ objects'[j].z = newZ(o)
                        /\ ~objects'[j].active
       IN  /\ lives' >= lives - 1
           /\ lives' < lives => tick
           /\ (tick /\ PlayerInvincible(frameMs)) => lives' = lives
           /\ (tick /\ Cardinality(hits) >= 2)
                 => /\ \A i \in hits : off(objects[i])
                    /\ lives' >= lives - 1
                    /\ (~PlayerInvincible(frameMs) /\ ~isImmortalityActive)
                          => lives' = lives - 1 /\ isInvincible']_vars

\* The pitchfork and the scarecrow have met the player in one and the same
\* tick: both are spent, one life is gone and the window has just opened.
C32_Witness ==
    /\ status = "PLAYING" /\ lives = BASE_MAX_LIVES - 1 /\ ~hasImmortality
    /\ isInvincible /\ sinceDamage = 0
    /\ \E i \in 1..Len(objects) :
          objects[i].type = "ALIEN" /\ ~objects[i].active /\ objects[i].outcomes = 1
    /\ \E i \in 1..Len(objects) :
          objects[i].type = "MISSILE" /\ ~objects[i].active /\ objects[i].outcomes = 1

\* C33: the restart from GameOver or Victory enters Playing with the player
\* vulnerable: no damage window of the run before is open in the first frame
\* of the new run, however soon after the fatal hit the restart comes.
C33_VulnerableAfterRestart ==
    [][((status = "GAME_OVER" \/ status = "VICTORY") /\ status' = "PLAYING")
          => ~(isInvincible' /\ sinceDamage' + frameMs <= INVINCIBLE_MS)]_vars

\* C34: the store never holds more than one portal, through ticks, shop
\* visits, level-ups and restarts.
C34_AtMostOnePortal ==
    Cardinality({i \in 1..Len(objects) : objects[i].type = "SHOP_PORTAL"}) <= 1

\* A tick into level 3: the portal that opened the shop is gone and the
\* portal of the level-up, the only one in the store, is on its way.
C34_Witness ==
    /\ status = "PLAYING" /\ level = MAX_LEVEL /\ prevLevel = MAX_LEVEL
    /\ Cardinality({i \in 1..Len(objects) : objects[i].type = "SHOP_PORTAL"}) = 1
    /\ \E i \in 1..Len(objects) :
          /\ objects[i].type = "SHOP_PORTAL" /\ objects[i].active
          /\ objects[i].z > -100000

\* C35: a Playing tick that begins with every word index collected and takes
\* a spawn opportunity with the distance at or past the letter threshold
\* appends one fallback pie (50 points, height 1.2) and nothing else, and
\* leaves the threshold where it was, so that the next opportunity finds it
\* crossed again.
C35_FallbackKeepsThreshold ==
    [][LET tick == status = "PLAYING" /\ ticks' = ticks + 1
           a == FrameLoop(frameMs)
           kept == a.kept \o a.spawns
           open == FurthestZ(kept) > -SPAWN_DISTANCE
           due == distanceTraveled + FrameDist(frameMs) >= nextLetterDistance
           new == {j \in 1..Len(objects') : j > Len(kept)}
       IN  (tick /\ collectedLetters = WordIndices /\ due)
              => /\ nextLetterDistance' = nextLetterDistance
                 /\ distanceTraveled' >= nextLetterDistance'
                 /\ open => Cardinality(new) = 1
                 /\ \A j \in new :
                       /\ objects'[j].type = "GEM"
                       /\ objects'[j].points = 50
                       /\ objects'[j].y = 1200]_vars

\* With the word complete and the threshold crossed the spawner has placed
\* its fallback pie beyond the horizon; the threshold is still crossed.
C35_Witness ==
    /\ status = "PLAYING" /\ collectedLetters = WordIndices /\ ticks >= 1
    /\ distanceTraveled >= nextLetterDistance
    /\ Len(objects) >= 2
    /\ objects[Len(objects)].type = "GEM"
    /\ objects[Len(objects)].points = 50
    /\ objects[Len(objects)].z < -SPAWN_DISTANCE - MinGap \div 2

\* At level 1 the store holds no LevelPortal and the shop is not open, and a
\* step taken at level 1 ends at level 1: nothing a run that starts at level
\* 1 can do brings a portal, the shop or level 2.
C36_LevelOneIsClosed ==
    /\ level = 1 => /\ status # "SHOP"
                    /\ \A i \in 1..Len(objects) : objects[i].type # "SHOP_PORTAL"
    /\ prevLevel = 1 => level = 1

\* C36: level progression is not deadlocked at level 1: the Playing tick in
\* which the word becomes complete at level 1 opens the way to level 2, that
\* is, it raises the level or leaves a LevelPortal in the store for the
\* player to reach.
C36_PortalAfterWord ==
    [][(/\ status = "PLAYING" /\ ticks' = ticks + 1
        /\ level = 1
        /\ collectedLetters # WordIndices
        /\ collectedLetters' = WordIndices
        /\ status' = "PLAYING")
          => \/ level' > 1
             \/ \E i \in 1..Len(objects') : objects'[i].type = "SHOP_PORTAL"]_vars

====
